---- MODULE Spec2Model ----
(***************************************************************************)
(* user-storage-helper: StorageUtil (src/index.ts, src/index.js).          *)
(*                                                                         *)
(* A wrapper around window.localStorage / window.sessionStorage that keeps *)
(* one JSON text per name and addresses either the whole decoded Record or *)
(* one field ("item") of it.  The model keeps the two Storage objects, the *)
(* JavaScript values that go through JSON.stringify / JSON.parse, and the  *)
(* outcome (return value, thrown error) of the last call.                  *)
(*                                                                         *)
(* Both source files are ES modules ("export default"), so the code runs   *)
(* in strict mode: assigning a property on a primitive, or deleting a      *)
(* non-configurable property, throws a TypeError.                          *)
(***************************************************************************)
EXTENDS Integers, Sequences, FiniteSets, TLC

VARIABLES
    store,   \* store[t]: the Storage object window[t + "Storage"], key -> text
    prev,    \* the stores as they were before the last call
    last,    \* the last call: [op, recv, type, name, item, value]
    ret,     \* the value the last call returned (Undef when it threw)
    err,     \* the error the last call threw, "none" when it returned
    nops,    \* number of calls made so far
    pc,      \* two-caller scenario: position of each caller inside set()
    rd,      \* two-caller scenario: each caller's local storedData
    args,    \* two-caller scenario: each caller's {item, value}
    order    \* two-caller scenario: the steps taken, in order

vars == <<store, prev, last, ret, err, nops, pc, rd, args, order>>

----------------------------------------------------------------------------
(* Bounds of the model.                                                    *)

MaxOps == 2

----------------------------------------------------------------------------
(* JavaScript values.                                                      *)

Undef == [t |-> "undefined"]
Null == [t |-> "null"]
Num(n) == [t |-> "number", v |-> n]
Str(s) == [t |-> "string", v |-> s]
Bool(b) == [t |-> "boolean", v |-> b]
\* an array: its elements, a hole being Undef
Arr(s) == [t |-> "array", v |-> s]
\* a plain object: own property name -> value
Obj(f) == [t |-> "object", v |-> f]

EmptyFcn == [k \in {} |-> Undef]
EmptyObj == Obj(EmptyFcn)

\* ToBoolean, as used by !props[param], item ? .. : .., getItem(..) || '{}'
Truthy(x) ==
    CASE x.t = "undefined" -> FALSE
      [] x.t = "null" -> FALSE
      [] x.t = "number" -> x.v # 0
      [] x.t = "string" -> x.v # ""
      [] x.t = "boolean" -> x.v
      [] OTHER -> TRUE

\* ToPropertyKey / ToString of a name or an item used as a key
ToKey(x) ==
    CASE x.t = "undefined" -> "undefined"
      [] x.t = "string" -> x.v
      [] OTHER -> "?"

\* the array index a property key denotes, -1 when it is no array index
IndexOf(k) ==
    CASE k = "0" -> 0
      [] k = "1" -> 1
      [] OTHER -> -1

\* the characters of the strings the model stores as a whole Record
StrChars(s) ==
    CASE s = "" -> <<>>
      [] s = "s" -> <<"s">>
      [] OTHER -> <<>>

----------------------------------------------------------------------------
(* JSON text: a sequence of tokens.                                        *)

NumUniverse == {0, 1}
StrUniverse == {"", "s", "a", "0", "undefined"}
NumTok(n) == ToString(n)
StrTok(s) == "\"" \o s \o "\""
NumToks == {NumTok(n) : n \in NumUniverse}
StrToks == {StrTok(s) : s \in StrUniverse}

\* own property names in the order JSON.stringify visits them: integer keys
\* first, then string keys (taken in one fixed order)
KeyOrder == <<"0", "1", "", "a", "s", "undefined">>

RECURSIVE Ser(_), SerElems(_, _), SerMembers(_, _, _)

\* SerializeJSONProperty for a value that is not undefined
Ser(x) ==
    CASE x.t = "null" -> <<"null">>
      [] x.t = "boolean" -> IF x.v THEN <<"true">> ELSE <<"false">>
      [] x.t = "number" -> <<NumTok(x.v)>>
      [] x.t = "string" -> <<StrTok(x.v)>>
      [] x.t = "array" -> <<"[">> \o SerElems(x.v, 1) \o <<"]">>
      [] x.t = "object" -> <<"{">> \o SerMembers(x.v, 1, TRUE) \o <<"}">>
      [] OTHER -> <<"null">>

\* array elements from index i on: undefined and holes are written as null
SerElems(s, i) ==
    IF i > Len(s) THEN <<>>
    ELSE (IF i > 1 THEN <<",">> ELSE <<>>)
         \o (IF s[i] = Undef THEN <<"null">> ELSE Ser(s[i]))
         \o SerElems(s, i + 1)

\* object members from KeyOrder[i] on: undefined-valued properties are left out
SerMembers(f, i, first) ==
    IF i > Len(KeyOrder) THEN <<>>
    ELSE LET k == KeyOrder[i] IN
         IF k \in DOMAIN f /\ f[k] # Undef
         THEN (IF first THEN <<>> ELSE <<",">>)
              \o <<StrTok(k), ":">> \o Ser(f[k])
              \o SerMembers(f, i + 1, FALSE)
         ELSE SerMembers(f, i + 1, first)

\* JSON.stringify(x): undefined for undefined, else the text
JSONstringify(x) ==
    IF x.t = "undefined" THEN Undef ELSE [t |-> "text", v |-> Ser(x)]

ParseFail == [ok |-> FALSE, val |-> Undef, next |-> 0]

RECURSIVE ParseValue(_, _), ParseElements(_, _, _), ParseMembers(_, _, _)

ParseValue(toks, i) ==
    IF i > Len(toks) THEN ParseFail
    ELSE LET tk == toks[i] IN
         CASE tk = "null" -> [ok |-> TRUE, val |-> Null, next |-> i + 1]
           [] tk = "true" -> [ok |-> TRUE, val |-> Bool(TRUE), next |-> i + 1]
           [] tk = "false" -> [ok |-> TRUE, val |-> Bool(FALSE), next |-> i + 1]
           [] tk \in NumToks ->
                [ok |-> TRUE,
                 val |-> Num(CHOOSE n \in NumUniverse : NumTok(n) = tk),
                 next |-> i + 1]
           [] tk \in StrToks ->
                [ok |-> TRUE,
                 val |-> Str(CHOOSE s \in StrUniverse : StrTok(s) = tk),
                 next |-> i + 1]
           [] tk = "[" ->
                IF i + 1 <= Len(toks) /\ toks[i + 1] = "]"
                THEN [ok |-> TRUE, val |-> Arr(<<>>), next |-> i + 2]
                ELSE ParseElements(toks, i + 1, <<>>)
           [] tk = "{" ->
                IF i + 1 <= Len(toks) /\ toks[i + 1] = "}"
                THEN [ok |-> TRUE, val |-> EmptyObj, next |-> i + 2]
                ELSE ParseMembers(toks, i + 1, EmptyFcn)
           [] OTHER -> ParseFail

ParseElements(toks, i, acc) ==
    LET r == ParseValue(toks, i) IN
    IF ~r.ok \/ r.next > Len(toks) THEN ParseFail
    ELSE IF toks[r.next] = ","
         THEN ParseElements(toks, r.next + 1, Append(acc, r.val))
         ELSE IF toks[r.next] = "]"
              THEN [ok |-> TRUE, val |-> Arr(Append(acc, r.val)),
                    next |-> r.next + 1]
              ELSE ParseFail

ParseMembers(toks, i, acc) ==
    IF i + 1 > Len(toks) \/ toks[i] \notin StrToks \/ toks[i + 1] # ":"
    THEN ParseFail
    ELSE LET key == CHOOSE s \in StrUniverse : StrTok(s) = toks[i]
             r == ParseValue(toks, i + 2)
             f == [k \in DOMAIN acc \cup {key} |->
                     IF k = key THEN r.val ELSE acc[k]]
         IN  IF ~r.ok \/ r.next > Len(toks) THEN ParseFail
             ELSE IF toks[r.next] = ","
                  THEN ParseMembers(toks, r.next + 1, f)
                  ELSE IF toks[r.next] = "}"
                       THEN [ok |-> TRUE, val |-> Obj(f), next |-> r.next + 1]
                       ELSE ParseFail

\* JSON.parse(text): the value, or a SyntaxError
JSONparse(toks) ==
    LET r == ParseValue(toks, 1) IN
    IF r.ok /\ r.next = Len(toks) + 1
    THEN [ok |-> TRUE, val |-> r.val]
    ELSE [ok |-> FALSE, val |-> Undef]

----------------------------------------------------------------------------
(* Property access on a decoded Record (strict mode).  Only own properties *)
(* are modelled; names inherited from Object.prototype are not items the   *)
(* model draws.                                                            *)

Ok(x) == [ok |-> TRUE, val |-> x]
TypeErr == [ok |-> FALSE, val |-> Undef]

\* storedData[item]
PropGet(o, k) ==
    CASE o.t = "object" -> IF k \in DOMAIN o.v THEN o.v[k] ELSE Undef
      [] o.t = "array" ->
            IF IndexOf(k) >= 0 /\ IndexOf(k) < Len(o.v)
            THEN o.v[IndexOf(k) + 1] ELSE Undef
      [] o.t = "string" ->
            IF IndexOf(k) >= 0 /\ IndexOf(k) < Len(StrChars(o.v))
            THEN Str(StrChars(o.v)[IndexOf(k) + 1]) ELSE Undef
      [] OTHER -> Undef

\* storedData[item] = value
PropSet(o, k, x) ==
    CASE o.t = "object" ->
            Ok(Obj([j \in DOMAIN o.v \cup {k} |-> IF j = k THEN x ELSE o.v[j]]))
      [] o.t = "array" ->
            IF IndexOf(k) < 0 THEN Ok(o)
            ELSE Ok(Arr([j \in 1..(IF IndexOf(k) + 1 > Len(o.v)
                                   THEN IndexOf(k) + 1 ELSE Len(o.v)) |->
                           IF j = IndexOf(k) + 1 THEN x
                           ELSE IF j <= Len(o.v) THEN o.v[j] ELSE Undef]))
      [] OTHER -> TypeErr

\* delete storedData[item]
PropDelete(o, k) ==
    CASE o.t = "object" -> Ok(Obj([j \in DOMAIN o.v \ {k} |-> o.v[j]]))
      [] o.t = "array" ->
            IF IndexOf(k) >= 0 /\ IndexOf(k) < Len(o.v)
            THEN Ok(Arr([j \in 1..Len(o.v) |->
                           IF j = IndexOf(k) + 1 THEN Undef ELSE o.v[j]]))
            ELSE Ok(o)
      [] o.t = "string" ->
            IF IndexOf(k) >= 0 /\ IndexOf(k) < Len(StrChars(o.v))
            THEN TypeErr ELSE Ok(o)
      [] o.t \in {"number", "boolean"} -> Ok(o)
      [] OTHER -> TypeErr

----------------------------------------------------------------------------
(* The host's Storage objects.                                             *)

StorageTypes == {"local", "session"}

\* window[type + 'Storage'] is a Storage object
HasStorage(type) == type.t = "string" /\ type.v \in StorageTypes

\* storage.getItem(key): the text, or null
GetItem(st, key) ==
    IF key \in DOMAIN st THEN [t |-> "text", v |-> st[key]] ELSE Null

\* storage.setItem(key, x): x is converted to a string
SetItem(st, key, x) ==
    [j \in DOMAIN st \cup {key} |->
        IF j = key THEN (IF x.t = "text" THEN x.v ELSE <<"undefined">>)
        ELSE st[j]]

\* storage.removeItem(key)
RemoveItem(st, key) == [j \in DOMAIN st \ {key} |-> st[j]]

\* storage.clear()
ClearStorage(st) == [j \in {} |-> <<>>]

\* storage.getItem(name) || '{}'
OrDefault(x) == IF x.t = "text" /\ x.v # <<>> THEN x.v ELSE <<"{", "}">>

\* JSON.parse(storage.getItem(name) || '{}')
ReadRecord(st, name) == JSONparse(OrDefault(GetItem(st, ToKey(name))))

----------------------------------------------------------------------------
(* StorageUtil.  Each operation maps the stores to the outcome of the      *)
(* call: the stores after it, the value returned and the error thrown.     *)

Return(S, x) == [store |-> S, ret |-> x, err |-> "none"]
Throw(S, e) == [store |-> S, ret |-> Undef, err |-> e]
Write(S, type, st) == [S EXCEPT ![type.v] = st]

\* ensureParams looking at the first required parameter only
ensureParamsFirstOnly(requiredParams, props) ==
    IF ~Truthy(props[requiredParams[1]]) THEN requiredParams[1] ELSE "none"

\* ensureParams: the first required parameter that is falsy, "none" if none
ensureParams(requiredParams, props) ==
    LET bad == {i \in 1..Len(requiredParams) :
                   ~Truthy(props[requiredParams[i]])}
    IN  IF bad = {} THEN "none"
        ELSE requiredParams[CHOOSE i \in bad : \A j \in bad : i <= j]

MissingParameter(param) == "MissingParameter: " \o param

get(S, type, name, item) ==
    LET miss == ensureParams(<<"type", "name">>, [type |-> type, name |-> name])
    IN  IF miss # "none" THEN Throw(S, MissingParameter(miss))
        ELSE IF ~HasStorage(type) THEN Throw(S, "TypeError")
        ELSE LET storedData == ReadRecord(S[type.v], name) IN
             IF ~storedData.ok THEN Throw(S, "SyntaxError")
             ELSE IF Truthy(item)
                  THEN (IF storedData.val.t = "null" THEN Throw(S, "TypeError")
                        ELSE Return(S, PropGet(storedData.val, ToKey(item))))
                  ELSE Return(S, storedData.val)

\* setRead that does not require value
setReadNoValueCheck(S, type, name, value) ==
    LET miss == ensureParams(<<"type", "name">>, [type |-> type, name |-> name])
    IN  IF miss # "none" THEN [err |-> MissingParameter(miss), val |-> Undef]
        ELSE IF ~HasStorage(type) THEN [err |-> "TypeError", val |-> Undef]
        ELSE LET storedData == ReadRecord(S[type.v], name) IN
             IF ~storedData.ok THEN [err |-> "SyntaxError", val |-> Undef]
             ELSE [err |-> "none", val |-> storedData.val]

\* set, lines 48-50: the checks, then the stored Record is read and decoded
setRead(S, type, name, value) ==
    LET miss == ensureParams(<<"type", "name", "value">>,
                             [type |-> type, name |-> name, value |-> value])
    IN  IF miss # "none" THEN [err |-> MissingParameter(miss), val |-> Undef]
        ELSE IF ~HasStorage(type) THEN [err |-> "TypeError", val |-> Undef]
        ELSE LET storedData == ReadRecord(S[type.v], name) IN
             IF ~storedData.ok THEN [err |-> "SyntaxError", val |-> Undef]
             ELSE [err |-> "none", val |-> storedData.val]

\* setWrite that decodes the stored Record again instead of using storedData
setWriteRereading(S, type, name, item, value, storedData) ==
    LET fresh == ReadRecord(S[type.v], name).val
        new == IF Truthy(item) THEN PropSet(fresh, ToKey(item), value)
               ELSE Ok(value)
    IN  IF ~new.ok THEN Throw(S, "TypeError")
        ELSE Return(Write(S, type,
                      SetItem(S[type.v], ToKey(name), JSONstringify(new.val))),
                    Undef)

\* set, lines 51-56: the local storedData is changed, encoded and written back
setWrite(S, type, name, item, value, storedData) ==
    LET new == IF Truthy(item) THEN PropSet(storedData, ToKey(item), value)
               ELSE Ok(value)
    IN  IF ~new.ok THEN Throw(S, "TypeError")
        ELSE Return(Write(S, type,
                      SetItem(S[type.v], ToKey(name), JSONstringify(new.val))),
                    Undef)

set(S, type, name, item, value) ==
    LET r == setRead(S, type, name, value) IN
    IF r.err # "none" THEN Throw(S, r.err)
    ELSE setWrite(S, type, name, item, value, r.val)

\* remove that deletes the whole entry whether or not an item is given
removeWholeEntry(S, type, name, item) ==
    LET miss == ensureParams(<<"type", "name">>, [type |-> type, name |-> name])
    IN  IF miss # "none" THEN Throw(S, MissingParameter(miss))
        ELSE IF ~HasStorage(type) THEN Throw(S, "TypeError")
        ELSE Return(Write(S, type, RemoveItem(S[type.v], ToKey(name))), Undef)

\* remove that, without an item, writes an empty Record instead of deleting
removeWritingEmpty(S, type, name, item) ==
    LET miss == ensureParams(<<"type", "name">>, [type |-> type, name |-> name])
    IN  IF miss # "none" THEN Throw(S, MissingParameter(miss))
        ELSE IF ~HasStorage(type) THEN Throw(S, "TypeError")
        ELSE LET storedData == ReadRecord(S[type.v], name) IN
             IF ~storedData.ok THEN Throw(S, "SyntaxError")
             ELSE LET new == IF Truthy(item)
                             THEN PropDelete(storedData.val, ToKey(item))
                             ELSE Ok(EmptyObj)
                  IN  IF ~new.ok THEN Throw(S, "TypeError")
                      ELSE Return(Write(S, type,
                                    SetItem(S[type.v], ToKey(name),
                                            JSONstringify(new.val))),
                                  Undef)

remove(S, type, name, item) ==
    LET miss == ensureParams(<<"type", "name">>, [type |-> type, name |-> name])
    IN  IF miss # "none" THEN Throw(S, MissingParameter(miss))
        ELSE IF ~HasStorage(type) THEN Throw(S, "TypeError")
        ELSE IF Truthy(item)
             THEN LET storedData == ReadRecord(S[type.v], name) IN
                  IF ~storedData.ok THEN Throw(S, "SyntaxError")
                  ELSE LET new == PropDelete(storedData.val, ToKey(item)) IN
                       IF ~new.ok THEN Throw(S, "TypeError")
                       ELSE Return(Write(S, type,
                                     SetItem(S[type.v], ToKey(name),
                                             JSONstringify(new.val))),
                                   Undef)
             ELSE Return(Write(S, type, RemoveItem(S[type.v], ToKey(name))),
                         Undef)

\* clear that empties both Storage objects
clearEverything(S, type) ==
    LET miss == ensureParams(<<"type">>, [type |-> type])
    IN  IF miss # "none" THEN Throw(S, MissingParameter(miss))
        ELSE IF ~HasStorage(type) THEN Throw(S, "TypeError")
        ELSE Return([t \in DOMAIN S |-> ClearStorage(S[t])], Undef)

clear(S, type) ==
    LET miss == ensureParams(<<"type">>, [type |-> type])
    IN  IF miss # "none" THEN Throw(S, MissingParameter(miss))
        ELSE IF ~HasStorage(type) THEN Throw(S, "TypeError")
        ELSE Return(Write(S, type, ClearStorage(S[type.v])), Undef)

\* the object chain({type, name}) returns
ChainObj(type, name) == [t |-> "chain", type |-> type, name |-> name]

\* "this" inside the arrow functions of the object literal: they close over
\* the "this" of the module's top level, which is undefined
ChainThis(type, name) == Undef

chainGet(S, type, name, item) ==
    IF ~HasStorage(type) THEN Throw(S, "TypeError")
    ELSE LET storedData == ReadRecord(S[type.v], name) IN
         IF ~storedData.ok THEN Throw(S, "SyntaxError")
         ELSE IF Truthy(item)
              THEN (IF storedData.val.t = "null" THEN Throw(S, "TypeError")
                    ELSE Return(S, PropGet(storedData.val, ToKey(item))))
              ELSE Return(S, storedData.val)

chainSet(S, type, name, item, value) ==
    IF ~HasStorage(type) THEN Throw(S, "TypeError")
    ELSE LET storedData == ReadRecord(S[type.v], name) IN
         IF ~storedData.ok THEN Throw(S, "SyntaxError")
         ELSE LET new == PropSet(storedData.val, ToKey(item), value) IN
              IF ~new.ok THEN Throw(S, "TypeError")
              ELSE Return(Write(S, type,
                            SetItem(S[type.v], ToKey(name),
                                    JSONstringify(new.val))),
                          ChainThis(type, name))

chainRemove(S, type, name, item) ==
    IF ~HasStorage(type) THEN Throw(S, "TypeError")
    ELSE LET storedData == ReadRecord(S[type.v], name) IN
         IF ~storedData.ok THEN Throw(S, "SyntaxError")
         ELSE LET new == PropDelete(storedData.val, ToKey(item)) IN
              IF ~new.ok THEN Throw(S, "TypeError")
              ELSE Return(Write(S, type,
                            SetItem(S[type.v], ToKey(name),
                                    JSONstringify(new.val))),
                          ChainThis(type, name))

chainClear(S, type, name) ==
    IF ~HasStorage(type) THEN Throw(S, "TypeError")
    ELSE Return(Write(S, type, RemoveItem(S[type.v], ToKey(name))),
                ChainThis(type, name))

\* a method m called on the chain object bound to (type, name)
chainCall(S, type, name, m, item, value) ==
    CASE m = "get" -> chainGet(S, type, name, item)
      [] m = "set" -> chainSet(S, type, name, item, value)
      [] m = "remove" -> chainRemove(S, type, name, item)
      [] m = "clear" -> chainClear(S, type, name)

----------------------------------------------------------------------------
(* The arguments the calls are made with.                                  *)

TypeArgs == {Str("local"), Str("session"), Undef}
NameArgs == {Str("n1"), Undef}
ItemArgs == {Str("a"), Str("0"), Undef}
ValueArgs == {Undef, Num(0), Str("s"), Arr(<<Num(1)>>),
              Obj([k \in {"a"} |-> Num(1)])}

\* a call that leaves out type or name is made with nothing but a value
Plain(type, name, item, value) ==
    (~Truthy(type) \/ ~Truthy(name)) => (item = Undef /\ value \in {Undef, Str("s")})

ChainMethods == {"get", "set", "remove", "clear"}
ChainMutators == {"chain.set", "chain.remove", "chain.clear"}
\* the arguments method m takes
ItemsOf(m) == IF m = "clear" THEN {Undef} ELSE ItemArgs
ValuesOf(m) == IF m = "set" THEN ValueArgs ELSE {Undef}

Callers == {1, 2}

\* a call: the operation, the object it is called on, and its arguments
Call(op, recv, type, name, item, value) ==
    [op |-> op, recv |-> recv, type |-> type, name |-> name,
     item |-> item, value |-> value]

NoCall == Call("none", "none", Undef, Undef, Undef, Undef)

EmptyStores == [t \in StorageTypes |-> [j \in {} |-> <<>>]]

\* what the Storage objects hold when the page loads: nothing, or what an
\* earlier page wrote through StorageUtil.set
PersistedStores ==
    {EmptyStores,
     set(set(EmptyStores, Str("local"), Str("n1"), Undef,
             Obj([k \in {"a"} |-> Num(1)])).store,
         Str("session"), Str("n1"), Undef, Str("s")).store}

\* the variables of the two-caller scenario, unused by single calls
Idle ==
    /\ pc = [p \in Callers |-> "idle"]
    /\ rd = [p \in Callers |-> Undef]
    /\ args = [p \in Callers |-> [item |-> Undef, value |-> Undef]]
    /\ order = <<>>

Init ==
    /\ store \in PersistedStores
    /\ prev = store
    /\ last = NoCall
    /\ ret = Undef
    /\ err = "none"
    /\ nops = 0
    /\ Idle

\* the outcome r of call c becomes the state
Apply(c, r) ==
    /\ nops < MaxOps
    /\ nops' = nops + 1
    /\ prev' = store
    /\ store' = r.store
    /\ ret' = r.ret
    /\ err' = r.err
    /\ last' = c
    /\ UNCHANGED <<pc, rd, args, order>>

Get(type, name, item) ==
    /\ Plain(type, name, item, Undef)
    /\ Apply(Call("get", "StorageUtil", type, name, item, Undef),
             get(store, type, name, item))

Set(type, name, item, value) ==
    /\ Plain(type, name, item, value)
    /\ Apply(Call("set", "StorageUtil", type, name, item, value),
             set(store, type, name, item, value))

Remove(type, name, item) ==
    /\ Plain(type, name, item, Undef)
    /\ Apply(Call("remove", "StorageUtil", type, name, item, Undef),
             remove(store, type, name, item))

Clear(type) ==
    Apply(Call("clear", "StorageUtil", type, Undef, Undef, Undef),
          clear(store, type))

\* StorageUtil.chain({type, name}).m(item, value)
Chain(type, name, m, item, value) ==
    /\ Plain(type, name, item, value)
    /\ Apply(Call("chain." \o m, "chain", type, name, item, value),
             chainCall(store, type, name, m, item, value))

\* .m(item, value) called on what the previous chain mutator returned, as in
\* chain(..).set(..).set(..): a TypeError unless that is a chain object
ChainNext(m, item, value) ==
    /\ last.op \in ChainMutators
    /\ err = "none"
    /\ Apply(Call("chain." \o m, "returned", last.type, last.name, item, value),
             IF ret.t = "chain"
             THEN chainCall(store, ret.type, ret.name, m, item, value)
             ELSE Throw(store, "TypeError"))

Next ==
    \/ \E type \in TypeArgs, name \in NameArgs, item \in ItemArgs :
          Get(type, name, item)
    \/ \E type \in TypeArgs, name \in NameArgs, item \in ItemArgs,
          value \in ValueArgs : Set(type, name, item, value)
    \/ \E type \in TypeArgs, name \in NameArgs, item \in ItemArgs :
          Remove(type, name, item)
    \/ \E type \in TypeArgs : Clear(type)
    \/ \E type \in TypeArgs, name \in NameArgs, m \in ChainMethods :
          \E item \in ItemsOf(m), value \in ValuesOf(m) :
             Chain(type, name, m, item, value)
    \/ \E m \in ChainMethods :
          \E item \in ItemsOf(m), value \in ValuesOf(m) :
             ChainNext(m, item, value)

Spec == Init /\ [][Next]_vars

----------------------------------------------------------------------------
(* Two callers (two browsing contexts sharing one Storage object) each run *)
(* set({type: "local", name: "n1", item, value}) on different items.  A    *)
(* call is two steps: lines 48-50 read and decode the Record, lines 51-56  *)
(* change the caller's own copy and write its full text back.              *)

RaceType == Str("local")
RaceName == Str("n1")
RaceItems == {i \in ItemArgs : Truthy(i)}
RaceValues == {x \in ValueArgs : Truthy(x)}

InitRace ==
    /\ store \in PersistedStores
    /\ prev = store
    /\ last = NoCall
    /\ ret = Undef
    /\ err = "none"
    /\ nops = 0
    /\ pc = [p \in Callers |-> "read"]
    /\ rd = [p \in Callers |-> Undef]
    /\ args \in {a \in [Callers -> [item : RaceItems, value : RaceValues]] :
                    a[1].item # a[2].item}
    /\ order = <<>>

SetRead(p) ==
    /\ pc[p] = "read"
    /\ LET r == setRead(store, RaceType, RaceName, args[p].value) IN
       /\ pc' = [pc EXCEPT ![p] = IF r.err = "none" THEN "write" ELSE "failed"]
       /\ rd' = [rd EXCEPT ![p] = r.val]
    /\ order' = Append(order, <<p, "read">>)
    /\ UNCHANGED <<store, prev, last, ret, err, nops, args>>

SetWrite(p) ==
    /\ pc[p] = "write"
    /\ LET r == setWrite(store, RaceType, RaceName, args[p].item,
                         args[p].value, rd[p]) IN
       /\ pc' = [pc EXCEPT ![p] = IF r.err = "none" THEN "done" ELSE "failed"]
       /\ store' = r.store
    /\ order' = Append(order, <<p, "write">>)
    /\ UNCHANGED <<prev, last, ret, err, nops, rd, args>>

NextRace == \E p \in Callers : SetRead(p) \/ SetWrite(p)

SpecRace == InitRace /\ [][NextRace]_vars

----------------------------------------------------------------------------
(* What the claims speak of.                                               *)

\* the last call was StorageUtil.<op>
TopLevel(op) == last.op = op /\ last.recv = "StorageUtil"
\* the last call named a Storage object and an entry
ValidTarget == HasStorage(last.type) /\ Truthy(last.name)
\* get({type, name, item}) of the last call's entry, in stores S
GetIn(S, item) == get(S, last.type, last.name, item)
OtherItems(item) == {j \in ItemArgs : Truthy(j) /\ j # item}
\* item is an index into a stored array or string
OwnIndex(o, item) ==
    /\ o.t \in {"array", "string"}
    /\ IndexOf(ToKey(item)) >= 0
    /\ IndexOf(ToKey(item)) < (IF o.t = "array" THEN Len(o.v)
                               ELSE Len(StrChars(o.v)))

----------------------------------------------------------------------------
(* C1.  set with no item followed by get with no item returns the value    *)
(* that was set, for every value including falsy ones.                     *)
(* The statement of the claim; set rejects a falsy value.                  *)
C1_RoundTrip ==
    (TopLevel("set") /\ ValidTarget /\ ~Truthy(last.item) /\ last.value # Undef)
    => /\ err = "none"
       /\ GetIn(store, Undef).err = "none"
       /\ GetIn(store, Undef).ret = last.value

(* C2.  set with an item followed by get of that item returns the value,   *)
(* and get of every other item returns what it returned before, whatever   *)
(* Record was stored before.                                               *)
(* The statement of the claim; it fails on falsy values and on Records     *)
(* that are not objects.                                                   *)
C2_FieldSet ==
    (TopLevel("set") /\ ValidTarget /\ Truthy(last.item) /\ last.value # Undef)
    => /\ err = "none"
       /\ GetIn(store, last.item).ret = last.value
       /\ \A j \in OtherItems(last.item) :
             GetIn(store, j).ret = GetIn(prev, j).ret

(* C3.  set called with type, name or value absent or falsy throws         *)
(* MissingParameter naming the first such field, and writes nothing: both  *)
(* Storage objects are as they were before the call.                       *)
C3_MissingParameter ==
    (TopLevel("set")
       /\ (~Truthy(last.type) \/ ~Truthy(last.name) \/ ~Truthy(last.value)))
    => /\ err = MissingParameter(IF ~Truthy(last.type) THEN "type"
                                 ELSE IF ~Truthy(last.name) THEN "name"
                                 ELSE "value")
       /\ store = prev

\* set without a value was called on an entry that holds a Record, and the
\* Record is still there
C3_Witness ==
    /\ TopLevel("set") /\ ValidTarget /\ last.value = Undef
    /\ err = MissingParameter("value")
    /\ ToKey(last.name) \in DOMAIN store[last.type.v]
    /\ GetIn(store, Undef).ret # EmptyObj

(* C4.  Every mutating method of a chain object returns that chain object, *)
(* so a method called on the returned value runs without failing.          *)
(* The statement of the claim; the methods return the module's "this".     *)
C4_ChainReturnsSelf ==
    /\ (last.op \in ChainMutators /\ last.recv = "chain" /\ ValidTarget
          /\ err = "none")
          => ret = ChainObj(last.type, last.name)
    /\ (last.recv = "returned") => err = "none"

(* C5.  remove with an item followed by get of that item returns           *)
(* undefined, and get of every other item returns what it returned before. *)
(* The statement of the claim, from any reachable Record.                  *)
C5_FieldRemove ==
    (TopLevel("remove") /\ ValidTarget /\ Truthy(last.item))
    => /\ err = "none"
       /\ GetIn(store, last.item).ret = Undef
       /\ \A j \in OtherItems(last.item) :
             GetIn(store, j).ret = GetIn(prev, j).ret

(* C5 as amended: the same, when the item is not an index into a stored    *)
(* array or string.                                                        *)
C5_FieldRemoveOfObject ==
    (TopLevel("remove") /\ ValidTarget /\ Truthy(last.item)
       /\ ~OwnIndex(GetIn(prev, Undef).ret, last.item))
    => /\ err = "none"
       /\ GetIn(store, last.item).ret = Undef
       /\ \A j \in OtherItems(last.item) :
             GetIn(store, j).ret = GetIn(prev, j).ret

\* an item was removed from a Record that held it and another item, which
\* is still there
C5_Witness ==
    /\ TopLevel("remove") /\ ValidTarget /\ Truthy(last.item) /\ err = "none"
    /\ GetIn(prev, Undef).ret.t = "object"
    /\ GetIn(prev, last.item).ret # Undef
    /\ GetIn(store, last.item).ret = Undef
    /\ \E j \in OtherItems(last.item) : GetIn(store, j).ret # Undef

(* C6.  After clear({type: T}), get returns an empty mapping for every     *)
(* name that had an entry in T, and the other Storage object holds exactly *)
(* what it held before.                                                    *)
C6_Clear ==
    (TopLevel("clear") /\ HasStorage(last.type))
    => /\ err = "none"
       /\ \A k \in DOMAIN prev[last.type.v] \cup {"n1"} :
             /\ get(store, last.type, Str(k), Undef).err = "none"
             /\ get(store, last.type, Str(k), Undef).ret = EmptyObj
       /\ \A t \in StorageTypes \ {last.type.v} : store[t] = prev[t]

\* a Storage object holding an entry was cleared while the other one holds
\* an entry
C6_Witness ==
    /\ TopLevel("clear") /\ HasStorage(last.type) /\ err = "none"
    /\ DOMAIN prev[last.type.v] # {}
    /\ \E t \in StorageTypes \ {last.type.v} : DOMAIN store[t] # {}

(* C7.  After remove with no item, the Storage object holds no text for    *)
(* the name, and get of the name returns an empty mapping.                 *)
C7_RemoveEntry ==
    (TopLevel("remove") /\ ValidTarget /\ ~Truthy(last.item))
    => /\ err = "none"
       /\ ToKey(last.name) \notin DOMAIN store[last.type.v]
       /\ GetIn(store, Undef).err = "none"
       /\ GetIn(store, Undef).ret = EmptyObj

\* an entry that existed was removed
C7_Witness ==
    /\ TopLevel("remove") /\ ValidTarget /\ ~Truthy(last.item) /\ err = "none"
    /\ ToKey(last.name) \in DOMAIN prev[last.type.v]
    /\ ToKey(last.name) \notin DOMAIN store[last.type.v]

(* C8.  Every entry of either Storage object holds well-formed JSON text,  *)
(* and no call fails decoding it.                                          *)
C8_WellFormed ==
    /\ \A t \in StorageTypes : \A k \in DOMAIN store[t] :
          JSONparse(store[t][k]).ok
    /\ err # "SyntaxError"

\* both Storage objects hold an entry and the last call, a chain method
\* given an undefined item or value, wrote one of them
C8_Witness ==
    /\ last.op \in {"chain.set", "chain.remove"} /\ err = "none"
    /\ last.item = Undef \/ last.value = Undef
    /\ store # prev
    /\ \A t \in StorageTypes : DOMAIN store[t] # {}

(* C9.  Two callers set different items of the same Record.  When both     *)
(* read before either writes, the Record ends with the later writer's item *)
(* only, the other item being as it was at the start; when one call ends   *)
(* before the other starts, the Record ends with both items.               *)
Interleaved == Len(order) = 4 /\ order[1][2] = "read" /\ order[2][2] = "read"
FirstWriter == order[3][1]
LastWriter == order[4][1]
FinalRecord == ReadRecord(store["local"], RaceName).val
StartRecord == ReadRecord(prev["local"], RaceName).val

C9_LostUpdate ==
    (\A p \in Callers : pc[p] = "done")
    => IF Interleaved
       THEN /\ PropGet(FinalRecord, ToKey(args[LastWriter].item))
                  = args[LastWriter].value
            /\ PropGet(FinalRecord, ToKey(args[FirstWriter].item))
                  = PropGet(StartRecord, ToKey(args[FirstWriter].item))
       ELSE \A p \in Callers :
               PropGet(FinalRecord, ToKey(args[p].item)) = args[p].value

\* both calls are over, they interleaved, and the first writer's item is
\* not in the Record
C9_Witness ==
    /\ \A p \in Callers : pc[p] = "done"
    /\ Interleaved
    /\ PropGet(FinalRecord, ToKey(args[FirstWriter].item)) = Undef
    /\ PropGet(FinalRecord, ToKey(args[LastWriter].item))
          = args[LastWriter].value

(* C10.  get, set and remove of a chain object leave the stores as the     *)
(* top-level get, set and remove called with the same arguments would,     *)
(* return the same value (get) and fail in the same cases.                 *)
(* The statement of the claim; the chain methods make no check of value    *)
(* and do not branch on item.                                              *)
TopLevelSame ==
    CASE last.op = "chain.get" -> get(prev, last.type, last.name, last.item)
      [] last.op = "chain.set" ->
            set(prev, last.type, last.name, last.item, last.value)
      [] last.op = "chain.remove" ->
            remove(prev, last.type, last.name, last.item)

C10_ChainAsTopLevel ==
    (last.op \in {"chain.get", "chain.set", "chain.remove"}
       /\ last.recv = "chain" /\ ValidTarget)
    => /\ store = TopLevelSame.store
       /\ (err = "none") = (TopLevelSame.err = "none")
       /\ last.op = "chain.get" => ret = TopLevelSame.ret

====
